---- MODULE Spec2Model ----
(***************************************************************************)
(* me.video of melonJS (src/src/video/video.js): renderer selection in     *)
(* init, the scaling computation of onresize, the deferred / forced        *)
(* application of the scale, setMaxSize and scale.                         *)
(*                                                                         *)
(* JavaScript numbers are modelled as exact non-negative rationals <<n,d>> *)
(* in lowest terms (d > 0), with <<1,0>> for Infinity and <<0,0>> for NaN. *)
(* Floating-point rounding is not modelled.                                *)
(***************************************************************************)
EXTENDS Integers, Sequences, FiniteSets, TLC

(* ------------------------------------------------------------------ *)
(* JavaScript number arithmetic, as used by onresize and scale        *)
(* ------------------------------------------------------------------ *)

\* The arithmetic is written as functions, which take their arguments by
\* value; the operators after each are the names the model uses.

Pairs == Int \X Int

GcdF[p \in Pairs] == IF p[2] = 0 THEN p[1] ELSE GcdF[<<p[2], p[1] % p[2]>>]

\* a JS number from numerator and denominator (both >= 0)
NormF[p \in Pairs] ==
    IF p[2] = 0 THEN (IF p[1] = 0 THEN <<0, 0>> ELSE <<1, 0>>)
    ELSE IF p[1] = 0 THEN <<0, 1>>
    ELSE <<p[1] \div GcdF[p], p[2] \div GcdF[p]>>

Norm(n, d) == NormF[<<n, d>>]
Num(n) == <<n, 1>>
Infinity == <<1, 0>>
NaN == <<0, 0>>

IsNaN(a) == a = NaN
IsFinite(a) == a[2] > 0

\* a / b
DivF[a \in Pairs, b \in Pairs] == NormF[<<a[1] * b[2], a[2] * b[1]>>]
Div(a, b) == DivF[a, b]

\* a * b
MulF[a \in Pairs, b \in Pairs] == NormF[<<a[1] * b[1], a[2] * b[2]>>]
Mul(a, b) == MulF[a, b]

\* a + b
AddF[a \in Pairs, b \in Pairs] ==
    IF a = NaN \/ b = NaN THEN NaN
    ELSE IF a = Infinity \/ b = Infinity THEN Infinity
    ELSE NormF[<<a[1] * b[2] + b[1] * a[2], a[2] * b[2]>>]
Add(a, b) == AddF[a, b]

\* a < b, a > b, a <= b (every comparison with NaN is false)
LtF[a \in Pairs, b \in Pairs] == a # NaN /\ b # NaN /\ a[1] * b[2] < b[1] * a[2]
Lt(a, b) == LtF[a, b]
Gt(a, b) == LtF[b, a]
LeF[a \in Pairs, b \in Pairs] == a # NaN /\ b # NaN /\ ~LtF[b, a]
Le(a, b) == LeF[a, b]

\* Math.min(a, b)
MathMinF[a \in Pairs, b \in Pairs] ==
    IF a = NaN \/ b = NaN THEN NaN
    ELSE IF LtF[b, a] THEN b ELSE a
MathMin(a, b) == MathMinF[a, b]

\* Math.floor(a)
MathFloorF[a \in Pairs] == IF a[2] > 0 THEN <<a[1] \div a[2], 1>> ELSE a
MathFloor(a) == MathFloorF[a]

\* ~~a : ToInt32 truncation (NaN and Infinity become 0); every finite value
\* met here is non-negative and far below 2^31, where ToInt32 only truncates
ToInt32F[a \in Pairs] == IF a[2] > 0 THEN a[1] \div a[2] ELSE 0
ToInt32(a) == ToInt32F[a]

\* a || b on numbers : 0 and NaN are falsy
OrElseF[a \in Pairs, b \in Pairs] == IF a = <<0, 1>> \/ a = NaN THEN b ELSE a
OrElse(a, b) == OrElseF[a, b]

(* ------------------------------------------------------------------ *)
(* Public constants of me.video                                       *)
(* ------------------------------------------------------------------ *)

CANVAS == 0
WEBGL == 1
AUTO == 2

RecognizedMethods ==
    {"fit", "fill-min", "fill-max", "flex", "flex-width", "flex-height", "stretch"}

\* variant : the name is kept whatever it is
NormalizeScaleMethod_Keep(m) == m

\* settings.scaleMethod after the sanitizing regular expression of init
NormalizeScaleMethod(m) == IF m \in RecognizedMethods THEN m ELSE "fit"

(* ------------------------------------------------------------------ *)
(* Bounds and input sets                                              *)
(* ------------------------------------------------------------------ *)

\* resize requests from outside are accepted while fewer than this many
\* deferred callbacks have been scheduled
MaxDeferred == 3

\* design sizes given to init (0 makes createCanvas throw)
GameWidths == {0, 4}
GameHeights == {0, 3}

\* what onresize can measure: <<parentNode width, parentNode height,
\* window.innerWidth, window.innerHeight>> (0 stands for undefined or 0, both
\* falsy) : a container 4.5 wide and 3 high (getBoundingClientRect gives
\* fractions of a pixel), an unmeasurable container in a 3x2 window, and a
\* container and window of no height
Readings ==
    {<<<<9, 2>>, Num(3), Num(2), Num(2)>>,
     <<Num(0), Num(0), Num(3), Num(2)>>,
     <<Num(4), Num(0), Num(2), Num(0)>>}

\* arguments <<w, h>> of setMaxSize : none, (0, 2) and (2.5, 2)
MaxSizeArgs == {<<NaN, NaN>>, <<Num(0), Num(2)>>, <<<<5, 2>>, Num(2)>>}

\* parseInt of the CSS max-width / max-height of the canvas : "none" (NaN)
\* and "2px"
CssMaxSizes == {<<NaN, NaN>>, <<Num(2), Num(2)>>}

\* me.device.devicePixelRatio
PixelRatios == {1, 2}

\* options.scaleMethod
ScaleMethodArgs == RecognizedMethods \cup {"bogus", "FIT", "flex-", ""}

\* options.scale
ScaleArgs == {"auto", "1", "2"}

VARIABLES
    deferResizeId,     \* line 12
    designRatio,       \* line 14
    designWidth,       \* line 15
    designHeight,      \* line 16
    maxWidth,          \* line 19
    maxHeight,         \* line 20
    settings,          \* line 23 (the fields the operations read)
    sysScale,          \* me.sys.scale
    renderer,          \* me.video.renderer : "none", "canvas" or "webgl"
    canvas,            \* the renderer's screen canvas: size and CSS size
    timers,            \* callbacks scheduled by me.utils.function.defer
    nextTimerId,       \* the next token setTimeout hands out
    devicePixelRatio,  \* me.device.devicePixelRatio
    measured,          \* container size read by the latest onresize
    initResult,        \* outcome of init: "none", "true", "false", "throw"
    last               \* what the latest handler did (observation only)

vars == <<deferResizeId, designRatio, designWidth, designHeight, maxWidth,
          maxHeight, settings, sysScale, renderer, canvas, timers,
          nextTimerId, devicePixelRatio, measured, initResult, last>>

\* the module-level variables of video.js
moduleVars == <<deferResizeId, designRatio, designWidth, designHeight,
                maxWidth, maxHeight, settings>>

(* ------------------------------------------------------------------ *)
(* Observation record of one handler run                              *)
(* ------------------------------------------------------------------ *)

NoLog ==
    [op |-> "none", force |-> FALSE, result |-> "none",
     probe |-> "none", webgl |-> "none", canvasCtor |-> "none", built |-> 0,
     videoInit |-> 0,
     updateBounds |-> 0, repaint |-> 0, resize |-> 0, applied |-> 0,
     scheduled |-> {}, cancelled |-> {}, fired |-> 0,
     max_width |-> NaN, max_height |-> NaN,
     scaleX |-> NaN, scaleY |-> NaN,
     argW |-> NaN, argH |-> NaN,
     choice |-> -1, uriWebgl |-> FALSE, methodArg |-> "", events |-> <<>>]

(* ------------------------------------------------------------------ *)
(* onresize : the scaling computation (lines 419-465)                  *)
(* ------------------------------------------------------------------ *)

\* variant : the window is measured even when the container has a size
ClampedSize_Window(bound, parentDim, innerDim) ==
    MathFloor(MathMin(bound, innerDim))

\* variant : the clamped size is not floored
ClampedSize_NoFloor(bound, parentDim, innerDim) ==
    MathMin(bound, OrElse(parentDim, innerDim))

\* Math.floor(Math.min(maxWidth, parentNodeWidth || window.innerWidth))
ClampedSize(bound, parentDim, innerDim) ==
    MathFloor(MathMin(bound, OrElse(parentDim, innerDim)))

\* variant : the chain has no stretch branch, stretch ends in the final else
ScaleBranch_NoStretch(method, screenRatio, dRatio) ==
    IF \/ (method = "fill-min" /\ Gt(screenRatio, dRatio))
       \/ (method = "fill-max" /\ Lt(screenRatio, dRatio))
       \/ method = "flex-width"
    THEN "width"
    ELSE IF \/ (method = "fill-min" /\ Lt(screenRatio, dRatio))
            \/ (method = "fill-max" /\ Gt(screenRatio, dRatio))
            \/ method = "flex-height"
    THEN "height"
    ELSE IF method = "flex" THEN "flex"
    ELSE "fit"

\* which branch of the if / else-if chain of onresize is taken
ScaleBranch(method, screenRatio, dRatio) ==
    IF \/ (method = "fill-min" /\ Gt(screenRatio, dRatio))
       \/ (method = "fill-max" /\ Lt(screenRatio, dRatio))
       \/ method = "flex-width"
    THEN "width"
    ELSE IF \/ (method = "fill-min" /\ Lt(screenRatio, dRatio))
            \/ (method = "fill-max" /\ Gt(screenRatio, dRatio))
            \/ method = "flex-height"
    THEN "height"
    ELSE IF method = "flex" THEN "flex"
    ELSE IF method = "stretch" THEN "stretch"
    ELSE "fit"

\* variant : the width is not capped by maxWidth
SWidth_NoBound(maxW, dH, screenRatio) == Mul(Num(dH), screenRatio)

\* var sWidth = Math.min(maxWidth, designHeight * screenRatio)
SWidth(maxW, dH, screenRatio) == MathMin(maxW, Mul(Num(dH), screenRatio))

\* var sHeight = Math.min(maxHeight, designWidth * (_max_height / _max_width))
SHeight(maxH, dW, mw, mh) == MathMin(maxH, Mul(Num(dW), Div(mh, mw)))

\* ~~(s + 0.5)
RoundHalfUp(s) == ToInt32(Add(s, <<1, 2>>))

\* variant : the comparison of the fit branch is turned around
FitByWidth_Flipped(screenRatio, dRatio) == Gt(screenRatio, dRatio)

\* if (screenRatio < designRatio) : the fit branch scales by the width
FitByWidth(screenRatio, dRatio) == Lt(screenRatio, dRatio)

\* the scale factors before the pixel-ratio correction, and the canvas
\* resize the branch asks for
Sizing(method, mw, mh, maxW, maxH, dW, dH, dRatio) ==
    LET screenRatio == Div(mw, mh)
        branch == ScaleBranch(method, screenRatio, dRatio)
        sWidth == SWidth(maxW, dH, screenRatio)
        sHeight == SHeight(maxH, dW, mw, mh)
    IN  CASE branch = "width" ->
                [branch |-> branch, scaleX |-> Div(mw, sWidth), scaleY |-> Div(mw, sWidth),
                 resize |-> TRUE, w |-> RoundHalfUp(sWidth), h |-> dH]
          [] branch = "height" ->
                [branch |-> branch, scaleX |-> Div(mh, sHeight), scaleY |-> Div(mh, sHeight),
                 resize |-> TRUE, w |-> dW, h |-> RoundHalfUp(sHeight)]
          [] branch = "flex" ->
                [branch |-> branch, scaleX |-> Num(1), scaleY |-> Num(1),
                 resize |-> TRUE, w |-> ToInt32(mw), h |-> ToInt32(mh)]
          [] branch = "stretch" ->
                [branch |-> branch, scaleX |-> Div(mw, Num(dW)), scaleY |-> Div(mh, Num(dH)),
                 resize |-> FALSE, w |-> 0, h |-> 0]
          [] OTHER ->
                IF FitByWidth(screenRatio, dRatio)
                THEN [branch |-> branch, scaleX |-> Div(mw, Num(dW)), scaleY |-> Div(mw, Num(dW)),
                      resize |-> FALSE, w |-> 0, h |-> 0]
                ELSE [branch |-> branch, scaleX |-> Div(mh, Num(dH)), scaleY |-> Div(mh, Num(dH)),
                      resize |-> FALSE, w |-> 0, h |-> 0]

\* scaleX *= me.device.devicePixelRatio
PixelRatioAdjust(s, ratio) == Mul(s, Num(ratio))

(* ------------------------------------------------------------------ *)
(* Collaborators: the deferral primitive, the renderer, the canvas    *)
(* ------------------------------------------------------------------ *)

\* me.utils.function.defer(fn, scope, args...) : a one-shot callback under
\* a fresh positive token; the token is the value returned
Defer(ts, id, fn, args) == ts \cup {[id |-> id, fn |-> fn, args |-> args]}

\* clearTimeout(id)
ClearTimeout(ts, id) == {t \in ts : t.id # id}

\* renderer.resize(w, h) : the surface takes the given size
RendererResize(c, w, h) == [c EXCEPT !.width = w, !.height = h]

\* the screen canvas a renderer constructor creates with
\* createCanvas(zoomX, zoomY), and the High-DPI CSS adjustment of init
NewCanvas(zoomX, zoomY, ratio) ==
    [width |-> zoomX, height |-> zoomY,
     styleWidth |-> IF ratio > 1 THEN Div(Num(zoomX), Num(ratio)) ELSE Num(zoomX),
     styleHeight |-> IF ratio > 1 THEN Div(Num(zoomY), Num(ratio)) ELSE Num(zoomY)]

NoCanvas == [width |-> 0, height |-> 0, styleWidth |-> NaN, styleHeight |-> NaN]

(* ------------------------------------------------------------------ *)
(* api.scale (lines 494-524)                                          *)
(* ------------------------------------------------------------------ *)

\* canvas.style.width : w = canvas.width * x, divided by the pixel ratio
\* on High-DPI devices
Presented(size, x, ratio) ==
    LET w == Mul(Num(size), x)
    IN  IF ratio > 1 THEN Div(w, Num(ratio)) ELSE w

\* variant : scale leaves the token as it found it
ClearedToken_Keep(id) == id

\* "clear timeout id if defined" : deferResizeId = -1
ClearedToken(id) == -1

\* variant : the presented size, not the canvas size, is multiplied
ScaleCall_FromStyle(x, y, c, id, ratio) ==
    [sysScale |-> <<x, y>>,
     canvas |-> [c EXCEPT !.styleWidth = Mul(c.styleWidth, x),
                          !.styleHeight = Mul(c.styleHeight, y)],
     deferResizeId |-> ClearedToken(id)]

\* the state api.scale(x, y) leaves
ScaleCall(x, y, c, id, ratio) ==
    [sysScale |-> <<x, y>>,
     canvas |-> [c EXCEPT !.styleWidth = Presented(c.width, x, ratio),
                          !.styleHeight = Presented(c.height, y, ratio)],
     deferResizeId |-> ClearedToken(id)]

(* ------------------------------------------------------------------ *)
(* api.onresize (lines 400-481)                                       *)
(* ------------------------------------------------------------------ *)

\* variant : the previous pending resize is left scheduled
CancelPending_Skip(ts, id) == ts

\* "cancel any previous pending resize"
CancelPending(ts, id) == IF id > 0 THEN ClearTimeout(ts, id) ELSE ts

\* the ids CancelPending takes out of ts
Cancelled(ts, id) == {t.id : t \in ts \ CancelPending(ts, id)}

\* variant : force is ignored, every request is deferred
Deferring_Always(force) == TRUE

\* if (force !== true) defer, else apply now
Deferring(force) == force # TRUE

\* variant : the scale is computed whatever settings.autoScale says
AutoScaling_Always(st) == TRUE

\* if (settings.autoScale)
AutoScaling(st) == st.settings.autoScale

\* the part of the state onresize reads and writes
Here ==
    [settings |-> settings, maxWidth |-> maxWidth, maxHeight |-> maxHeight,
     designWidth |-> designWidth, designHeight |-> designHeight,
     designRatio |-> designRatio, canvas |-> canvas, timers |-> timers,
     deferResizeId |-> deferResizeId, nextTimerId |-> nextTimerId,
     sysScale |-> sysScale, ratio |-> devicePixelRatio]

\* onresize(force) run in state st, with the container measuring (pw, ph)
\* and the window (iw, ih); log0 is the observation record it completes
Onresize(force, pw, ph, iw, ih, st, log0) ==
    IF ~AutoScaling(st)
    THEN /\ canvas' = st.canvas
         /\ timers' = st.timers
         /\ deferResizeId' = st.deferResizeId
         /\ nextTimerId' = st.nextTimerId
         /\ sysScale' = st.sysScale
         /\ UNCHANGED measured
         /\ last' = [log0 EXCEPT !.force = force, !.updateBounds = 1]
    ELSE
    \E mw \in {ClampedSize(st.maxWidth, pw, iw)},
       mh \in {ClampedSize(st.maxHeight, ph, ih)} :
    \E sz \in {Sizing(st.settings.scaleMethod, mw, mh, st.maxWidth, st.maxHeight,
                      st.designWidth, st.designHeight, st.designRatio)} :
    \E sx \in {PixelRatioAdjust(sz.scaleX, st.ratio)},
       sy \in {PixelRatioAdjust(sz.scaleY, st.ratio)},
       c1 \in {IF sz.resize THEN RendererResize(st.canvas, sz.w, sz.h) ELSE st.canvas},
       ts1 \in {CancelPending(st.timers, st.deferResizeId)} :
    \E log \in {[log0 EXCEPT !.force = force,
                             !.resize = IF sz.resize THEN 1 ELSE 0,
                             !.cancelled = Cancelled(st.timers, st.deferResizeId),
                             !.max_width = mw, !.max_height = mh,
                             !.scaleX = sx, !.scaleY = sy]} :
        /\ measured' = <<OrElse(pw, iw), OrElse(ph, ih)>>
        /\ IF Deferring(force)
           THEN /\ canvas' = c1
                /\ timers' = Defer(ts1, st.nextTimerId, "scale", <<sx, sy>>)
                /\ deferResizeId' = st.nextTimerId
                /\ nextTimerId' = st.nextTimerId + 1
                /\ sysScale' = st.sysScale
                /\ last' = [log EXCEPT !.scheduled = @ \cup {st.nextTimerId},
                                       !.updateBounds = 1]
           ELSE \E a \in {ScaleCall(sx, sy, c1, st.deferResizeId, st.ratio)} :
                /\ canvas' = a.canvas
                /\ timers' = ts1
                /\ deferResizeId' = a.deferResizeId
                /\ nextTimerId' = st.nextTimerId
                /\ sysScale' = a.sysScale
                /\ last' = [log EXCEPT !.applied = 1, !.repaint = 1,
                                       !.updateBounds = 2]

(* ------------------------------------------------------------------ *)
(* api.setMaxSize (lines 340-347)                                     *)
(* ------------------------------------------------------------------ *)

\* variant : the argument is stored as given
MaxBound_Keep(w) == w

\* maxWidth = w || Infinity
MaxBound(w) == OrElse(w, Infinity)

\* variant : the bounds are set and no resize is triggered
SetMaxSizeCall_NoDefer(w, h, st) ==
    [st EXCEPT !.maxWidth = MaxBound(w), !.maxHeight = MaxBound(h)]

\* the state setMaxSize(w, h) leaves : bounds set, a non-forced onresize
\* deferred, the token defer returns dropped
SetMaxSizeCall(w, h, st) ==
    [st EXCEPT !.maxWidth = MaxBound(w),
               !.maxHeight = MaxBound(h),
               !.timers = Defer(st.timers, st.nextTimerId, "onresize", <<>>),
               !.nextTimerId = st.nextTimerId + 1]

(* ------------------------------------------------------------------ *)
(* Renderer selection (lines 45-54, 244-265, 359-364)                 *)
(* ------------------------------------------------------------------ *)

\* createCanvas throws when width === 0 || height === 0
CreateCanvasThrows(width, height) == width = 0 \/ height = 0

\* outcome of a renderer constructor: it calls createCanvas(zoomX, zoomY)
\* and can fail on its own account (env = "throws")
Construct(env, zoomX, zoomY) ==
    IF CreateCanvasThrows(zoomX, zoomY) THEN "throws" ELSE env

\* new me.CanvasRenderer(options) ; calls records what was invoked so far
\* and how it ended, kind is the renderer returned ("throw" for none)
CanvasPath(canvasEnv, zoomX, zoomY, calls) ==
    [calls EXCEPT !.canvasCtor = Construct(canvasEnv, zoomX, zoomY),
                  !.kind = IF Construct(canvasEnv, zoomX, zoomY) = "ok"
                           THEN "canvas" ELSE "throw"]

NoCalls == [probe |-> "none", webgl |-> "none", canvasCtor |-> "none",
            kind |-> "throw"]

\* variant : no try / catch around the probe and the WebGL constructor
AutoDetectRenderer_NoCatch(probe, webglEnv, canvasEnv, zoomX, zoomY) ==
    IF probe = "throws"
    THEN [NoCalls EXCEPT !.probe = probe]
    ELSE IF probe = "true"
    THEN IF Construct(webglEnv, zoomX, zoomY) = "ok"
         THEN [NoCalls EXCEPT !.probe = probe, !.webgl = "ok", !.kind = "webgl"]
         ELSE [NoCalls EXCEPT !.probe = probe, !.webgl = "throws"]
    ELSE CanvasPath(canvasEnv, zoomX, zoomY, [NoCalls EXCEPT !.probe = probe])

\* variant : the WebGL constructor is tried whatever the probe reports
AutoDetectRenderer_IgnoreProbe(probe, webglEnv, canvasEnv, zoomX, zoomY) ==
    IF probe # "throws" /\ Construct(webglEnv, zoomX, zoomY) = "ok"
    THEN [NoCalls EXCEPT !.probe = probe, !.webgl = "ok", !.kind = "webgl"]
    ELSE CanvasPath(canvasEnv, zoomX, zoomY,
                    [NoCalls EXCEPT !.probe = probe,
                                    !.webgl = IF probe = "throws" THEN "none"
                                              ELSE "throws"])

\* autoDetectRenderer(options) : probe is what isWebGLSupported does
\* ("true", "false", "throws")
AutoDetectRenderer(probe, webglEnv, canvasEnv, zoomX, zoomY) ==
    IF probe = "true"
    THEN IF Construct(webglEnv, zoomX, zoomY) = "ok"
         THEN [NoCalls EXCEPT !.probe = probe, !.webgl = "ok", !.kind = "webgl"]
         ELSE CanvasPath(canvasEnv, zoomX, zoomY,
                         [NoCalls EXCEPT !.probe = probe, !.webgl = "throws"])
    ELSE CanvasPath(canvasEnv, zoomX, zoomY, [NoCalls EXCEPT !.probe = probe])

\* variant : every choice goes through autoDetectRenderer
SelectRenderer_AlwaysDetect(choice, probe, webglEnv, canvasEnv, zoomX, zoomY) ==
    AutoDetectRenderer(probe, webglEnv, canvasEnv, zoomX, zoomY)

\* the switch on settings.renderer inside the try block of init
SelectRenderer(choice, probe, webglEnv, canvasEnv, zoomX, zoomY) ==
    IF choice \in {AUTO, WEBGL}
    THEN AutoDetectRenderer(probe, webglEnv, canvasEnv, zoomX, zoomY)
    ELSE CanvasPath(canvasEnv, zoomX, zoomY, NoCalls)

\* the catch block of init : console(e.message) calls the console object,
\* which is not a function, so a TypeError leaves init before "return false"
CatchOutcome == "throw"

\* +settings.scale
ToNumber(str) ==
    CASE str = "1" -> Num(1)
      [] str = "2" -> Num(2)
      [] OTHER -> NaN

\* settings after the sanitizing part of init (lines 143-176)
Sanitize(choice, scaleArg, method, uriWebgl) ==
    [renderer |-> IF uriWebgl THEN WEBGL ELSE choice,
     autoScale |-> scaleArg = "auto",
     scale |-> IF scaleArg = "auto" THEN Num(1) ELSE OrElse(ToNumber(scaleArg), Num(1)),
     scaleMethod |-> NormalizeScaleMethod(method)]

\* settings.zoomX = game_width * me.sys.scale.x
Zoom(size, s) == ToInt32(Mul(Num(size), s))

(* ------------------------------------------------------------------ *)
(* State after the module is loaded (lines 10-39)                     *)
(* ------------------------------------------------------------------ *)

Init ==
    /\ deferResizeId = -1
    /\ designRatio = Num(1)
    /\ designWidth = 0
    /\ designHeight = 0
    /\ maxWidth = Infinity
    /\ maxHeight = Infinity
    /\ settings = [renderer |-> AUTO, autoScale |-> FALSE, scale |-> Num(1),
                   scaleMethod |-> "fit"]
    /\ sysScale = <<Num(1), Num(1)>>
    /\ renderer = "none"
    /\ canvas = NoCanvas
    /\ timers = {}
    /\ nextTimerId = 1
    /\ devicePixelRatio \in PixelRatios
    /\ measured = <<Num(0), Num(0)>>
    /\ initResult = "none"
    /\ last = NoLog

(* ------------------------------------------------------------------ *)
(* api.init (lines 135-330)                                           *)
(* ------------------------------------------------------------------ *)

\* what me.device.isWebGLSupported does on this device, if it is called
ProbeOutcomes == {"true", "false", "throws"}

\* what a constructor can do on its own account when it is called
CtorOutcomes(called) == IF called THEN {"ok", "throws"} ELSE {"ok"}

\* what onresize measures, when it measures at all
Measures(on) == IF on THEN Readings ELSE {<<Num(0), Num(0), Num(0), Num(0)>>}

\* parseInt of the computed max-width / max-height, when init reads them
StyleArgs(on) == IF on THEN CssMaxSizes ELSE {<<NaN, NaN>>}

\* init called before the engine is initialized (line 138)
InitTooEarly ==
    /\ initResult = "none"
    /\ initResult' = "throw"
    /\ last' = [NoLog EXCEPT !.op = "init", !.result = "throw"]
    /\ UNCHANGED <<moduleVars, sysScale, renderer, canvas, timers, nextTimerId,
                   devicePixelRatio, measured>>

\* init with every backend constructor failing (lines 143-265)
InitFails(gw, gh, s1, sel, choice, uriWebgl, method) ==
    /\ sel.kind = "throw"
    /\ settings' = s1
    /\ sysScale' = <<s1.scale, s1.scale>>
    /\ designRatio' = Div(Num(gw), Num(gh))
    /\ designWidth' = gw
    /\ designHeight' = gh
    /\ initResult' = CatchOutcome
    /\ last' = [NoLog EXCEPT !.op = "init", !.result = CatchOutcome,
                             !.probe = sel.probe, !.webgl = sel.webgl,
                             !.canvasCtor = sel.canvasCtor, !.built = 0,
                             !.choice = choice, !.uriWebgl = uriWebgl,
                             !.methodArg = method]
    /\ UNCHANGED <<deferResizeId, maxWidth, maxHeight, renderer, canvas,
                   timers, nextTimerId, devicePixelRatio, measured>>

\* variant : VIDEO_INIT is published before the initial resize
InitEvents_PublishFirst == <<"renderer", "VIDEO_INIT", "onresize">>

\* what a successful init does, in program order : the renderer is assigned
\* (lines 252-260), onresize(true) is called (line 295), VIDEO_INIT is
\* published (line 327)
InitEvents == <<"renderer", "onresize", "VIDEO_INIT">>

\* init with a backend constructed (lines 143-330) : the canvas is added,
\* setMaxSize reads the CSS maximum, onresize(true) runs, VIDEO_INIT is
\* published
InitSucceeds(gw, gh, s1, sel, choice, uriWebgl, method, hasStyle, css, m) ==
    /\ sel.kind # "throw"
    /\ \E st0 \in {[Here EXCEPT !.settings = s1,
                                !.sysScale = <<s1.scale, s1.scale>>,
                                !.designRatio = Div(Num(gw), Num(gh)),
                                !.designWidth = gw,
                                !.designHeight = gh,
                                !.canvas = NewCanvas(Zoom(gw, s1.scale),
                                                     Zoom(gh, s1.scale),
                                                     devicePixelRatio)]} :
       \E st1 \in {IF hasStyle THEN SetMaxSizeCall(css[1], css[2], st0) ELSE st0} :
         /\ settings' = s1
         /\ designRatio' = st1.designRatio
         /\ designWidth' = gw
         /\ designHeight' = gh
         /\ maxWidth' = st1.maxWidth
         /\ maxHeight' = st1.maxHeight
         /\ renderer' = sel.kind
         /\ initResult' = "true"
         /\ Onresize(TRUE, m[1], m[2], m[3], m[4], st1,
                     [NoLog EXCEPT !.op = "init", !.result = "true",
                                   !.probe = sel.probe, !.webgl = sel.webgl,
                                   !.canvasCtor = sel.canvasCtor, !.built = 1,
                                   !.videoInit = 1,
                                   !.events = InitEvents,
                                   !.choice = choice, !.uriWebgl = uriWebgl,
                                   !.methodArg = method,
                                   !.scheduled = IF hasStyle THEN {st0.nextTimerId}
                                                 ELSE {}])
         /\ UNCHANGED devicePixelRatio

\* me.video.init(game_width, game_height, options), with options.renderer,
\* the URL's webgl flag, <<options.scale, options.scaleMethod>> and the
\* presence of window.getComputedStyle drawn from the given sets
InitCall(Choices, Uris, Opts, Styles) ==
    /\ initResult = "none"
    /\ \/ InitTooEarly
       \/ \E gw \in GameWidths, gh \in GameHeights, choice \in Choices,
             opt \in Opts, uriWebgl \in Uris :
          \E s1 \in {Sanitize(choice, opt[1], opt[2], uriWebgl)} :
          \E probe \in ProbeOutcomes :
          \E webglEnv \in CtorOutcomes(probe = "true"), canvasEnv \in {"ok", "throws"} :
          \E sel \in {SelectRenderer(s1.renderer, probe, webglEnv, canvasEnv,
                                     Zoom(gw, s1.scale), Zoom(gh, s1.scale))} :
             \/ InitFails(gw, gh, s1, sel, choice, uriWebgl, opt[2])
             \/ \E hasStyle \in Styles :
                \E css \in StyleArgs(hasStyle), m \in Measures(s1.autoScale) :
                  InitSucceeds(gw, gh, s1, sel, choice, uriWebgl, opt[2], hasStyle,
                               css, m)

\* init with any options
init == InitCall({CANVAS, WEBGL, AUTO}, BOOLEAN, ScaleArgs \X ScaleMethodArgs, BOOLEAN)

\* init asking for the canvas renderer, in a browser with getComputedStyle
initCanvas ==
    InitCall({CANVAS}, {FALSE}, ({"auto"} \X RecognizedMethods) \cup {<<"1", "fit">>},
             {TRUE})

(* ------------------------------------------------------------------ *)
(* Calls and events after a successful init                           *)
(* ------------------------------------------------------------------ *)

\* me.video.onresize(force), from a resize / orientation / mutation event
\* (force undefined, here FALSE) or called with force = true
onresize(force) ==
    /\ initResult = "true"
    /\ Deferring(force) /\ settings.autoScale => nextTimerId <= MaxDeferred
    /\ \E m \in Measures(settings.autoScale), st \in {Here} :
         Onresize(force, m[1], m[2], m[3], m[4], st,
                  [NoLog EXCEPT !.op = "onresize"])
    /\ UNCHANGED <<designRatio, designWidth, designHeight, maxWidth, maxHeight,
                   settings, renderer, devicePixelRatio, initResult>>

\* me.video.setMaxSize(w, h)
setMaxSize(w, h) ==
    /\ initResult = "true"
    /\ nextTimerId <= MaxDeferred
    /\ \E r \in {SetMaxSizeCall(w, h, Here)} :
           /\ maxWidth' = r.maxWidth
           /\ maxHeight' = r.maxHeight
           /\ timers' = r.timers
           /\ nextTimerId' = r.nextTimerId
    /\ last' = [NoLog EXCEPT !.op = "setMaxSize", !.scheduled = {nextTimerId},
                             !.argW = w, !.argH = h]
    /\ UNCHANGED <<deferResizeId, designRatio, designWidth, designHeight, settings,
                   sysScale, renderer, canvas, devicePixelRatio, measured,
                   initResult>>

\* me.video.scale(x, y) called by the application
scale(x, y) ==
    /\ initResult = "true"
    /\ \E a \in {ScaleCall(x, y, canvas, deferResizeId, devicePixelRatio)} :
           /\ sysScale' = a.sysScale
           /\ canvas' = a.canvas
           /\ deferResizeId' = a.deferResizeId
    /\ last' = [NoLog EXCEPT !.op = "scale", !.applied = 1, !.repaint = 1,
                             !.updateBounds = 1, !.scaleX = x, !.scaleY = y]
    /\ UNCHANGED <<designRatio, designWidth, designHeight, maxWidth, maxHeight,
                   settings, renderer, timers, nextTimerId, devicePixelRatio,
                   measured, initResult>>

\* a deferred me.video.scale(scaleX, scaleY) fires
FireScale(t) ==
    /\ t \in timers
    /\ t.fn = "scale"
    /\ \E a \in {ScaleCall(t.args[1], t.args[2], canvas, deferResizeId,
                           devicePixelRatio)} :
           /\ sysScale' = a.sysScale
           /\ canvas' = a.canvas
           /\ deferResizeId' = a.deferResizeId
    /\ timers' = timers \ {t}
    /\ last' = [NoLog EXCEPT !.op = "fire_scale", !.fired = t.id, !.applied = 1,
                             !.repaint = 1, !.updateBounds = 1,
                             !.scaleX = t.args[1], !.scaleY = t.args[2]]
    /\ UNCHANGED <<designRatio, designWidth, designHeight, maxWidth, maxHeight,
                   settings, renderer, nextTimerId, devicePixelRatio, measured,
                   initResult>>

\* a deferred me.video.onresize() (scheduled by setMaxSize) fires
FireOnresize(t) ==
    /\ t \in timers
    /\ t.fn = "onresize"
    /\ \E m \in Measures(settings.autoScale),
          st \in {[Here EXCEPT !.timers = timers \ {t}]} :
         Onresize(FALSE, m[1], m[2], m[3], m[4], st,
                  [NoLog EXCEPT !.op = "fire_onresize", !.fired = t.id])
    /\ UNCHANGED <<designRatio, designWidth, designHeight, maxWidth, maxHeight,
                   settings, renderer, devicePixelRatio, initResult>>

\* the host runs one outstanding deferred callback
Fire == \E t \in timers : FireScale(t) \/ FireOnresize(t)

\* scale factors an application passes to me.video.scale
ScaleCallArgs == {Num(1), Num(2)}

\* me.video.scale as documented : "Only use this if you are not using the
\* automatic scaling feature"
scaleManual == ~settings.autoScale /\ \E x, y \in ScaleCallArgs : scale(x, y)

Next ==
    \/ initCanvas
    \/ \E force \in BOOLEAN : onresize(force)
    \/ \E a \in MaxSizeArgs : setMaxSize(a[1], a[2])
    \/ scaleManual
    \/ Fire

Spec == Init /\ [][Next]_vars

\* init alone, with every option and every outcome of the collaborators
SpecInit == Init /\ [][init]_vars

\* init with automatic scaling, under the two policies that follow one side
\* of the container
initAuto == InitCall({CANVAS}, {FALSE}, {"auto"} \X {"fit", "flex-height"}, {TRUE})

NextAuto ==
    \/ initAuto
    \/ \E force \in BOOLEAN : onresize(force)
    \/ \E a \in MaxSizeArgs : setMaxSize(a[1], a[2])
    \/ Fire

\* an auto-scaling game whose host eventually runs every deferred callback
\* that is not cancelled
FairSpec == Init /\ [][NextAuto]_vars /\ WF_vars(Fire)

(* ------------------------------------------------------------------ *)
(* Vocabulary of the properties                                       *)
(* ------------------------------------------------------------------ *)

\* the deferred scale applications that are outstanding
ScaleTimers == {t \in timers : t.fn = "scale"}

Ids(ts) == {t.id : t \in ts}

\* the coordinator states of the resize state machine
Idle == deferResizeId = -1 /\ ScaleTimers = {}
PendingDeferred == deferResizeId > 0 /\ ScaleTimers # {}

Ready == initResult = "true"

\* the scale a request computes from container size c = <<w, h>> under the
\* bounds maxW, maxH, for the given policy and design size
ComputedScale(c, maxW, maxH, method, dW, dH, dRatio, ratio) ==
    LET mw == MathFloor(MathMin(maxW, c[1]))
        mh == MathFloor(MathMin(maxH, c[2]))
        sz == Sizing(method, mw, mh, maxW, maxH, dW, dH, dRatio)
    IN  <<Mul(sz.scaleX, Num(ratio)), Mul(sz.scaleY, Num(ratio))>>

\* the scale the latest run of onresize had to compute, under the bounds now
\* in force
ExpectedScale ==
    ComputedScale(measured, maxWidth, maxHeight, settings.scaleMethod,
                  designWidth, designHeight, designRatio, devicePixelRatio)

\* the same after the step
ExpectedScaleNext ==
    ComputedScale(measured', maxWidth', maxHeight', settings'.scaleMethod,
                  designWidth', designHeight', designRatio', devicePixelRatio')

\* the step is a run of onresize that asked for deferral / for an immediate
\* application (the run inside init and the deferred run included)
NonForcedResizeStep == last'.op \in {"onresize", "fire_onresize"} /\ ~last'.force
ForcedResizeStep == last'.op \in {"onresize", "init"} /\ last'.force /\ Ready'

(* ------------------------------------------------------------------ *)
(* C1                                                                 *)
(* ------------------------------------------------------------------ *)

\* C1: with autoscaling enabled, under any interleaving of onresize (forced or
\* not), setMaxSize and firings of deferred callbacks, at most one deferred
\* scale application is outstanding and it is the one deferResizeId names;
\* a step that schedules a new one while one is outstanding takes the old
\* one out without applying it, and tokens are fresh, so a superseded
\* application never fires.
C1_AtMostOneDeferredScale ==
    /\ [](settings.autoScale =>
            /\ Cardinality(ScaleTimers) <= 1
            /\ \A t \in ScaleTimers : t.id = deferResizeId)
    /\ [][/\ \A t \in timers' \ timers : t.id >= nextTimerId /\ t.id < nextTimerId'
          /\ (ScaleTimers' \ ScaleTimers # {} /\ ScaleTimers # {}) =>
                /\ ScaleTimers \cap timers' = {}
                /\ Ids(ScaleTimers) \subseteq last'.cancelled
                /\ last'.applied = 0
          /\ last'.op = "fire_scale" =>
                /\ ScaleTimers = {[id |-> last'.fired, fn |-> "scale",
                                   args |-> <<last'.scaleX, last'.scaleY>>]}
                /\ last'.fired = deferResizeId]_vars

\* a pending deferred application has just been superseded by a newer one
C1_Witness ==
    /\ settings.autoScale
    /\ last.op \in {"onresize", "fire_onresize"}
    /\ last.cancelled # {}
    /\ Cardinality(ScaleTimers) = 1
    /\ Ids(ScaleTimers) = last.scheduled

(* ------------------------------------------------------------------ *)
(* C2                                                                 *)
(* ------------------------------------------------------------------ *)

\* C2: when a non-forced onresize is issued while the deferred application of
\* an earlier non-forced onresize has not fired, exactly one application is
\* left outstanding, carrying the scale the second request computed from the
\* container size it saw; when a deferred application fires it applies its
\* scale with exactly one repaint and leaves nothing outstanding.
C2_LastRequestWins ==
    [][/\ (NonForcedResizeStep /\ last'.op = "onresize" /\ settings.autoScale
           /\ ScaleTimers # {}) =>
             /\ ScaleTimers' = {[id |-> deferResizeId', fn |-> "scale",
                                 args |-> ExpectedScaleNext]}
             /\ <<last'.scaleX, last'.scaleY>> = ExpectedScaleNext
             /\ last'.applied = 0 /\ last'.repaint = 0
       /\ last'.op = "fire_scale" =>
             /\ sysScale' = <<last'.scaleX, last'.scaleY>>
             /\ last'.applied = 1 /\ last'.repaint = 1
             /\ ScaleTimers' = {}]_vars

\* a second non-forced onresize has just superseded a pending one, and the
\* scale it computed differs from the scale now applied
C2_Witness ==
    /\ settings.autoScale
    /\ last.op = "onresize" /\ ~last.force
    /\ last.cancelled # {}
    /\ ScaleTimers = {[id |-> deferResizeId, fn |-> "scale", args |-> ExpectedScale]}
    /\ ExpectedScale # sysScale

(* ------------------------------------------------------------------ *)
(* C3                                                                 *)
(* ------------------------------------------------------------------ *)

\* C3: with autoscaling enabled, onresize(true) takes any pending deferred
\* scale application out of the schedule, applies the scale it computed
\* before it returns, and leaves the coordinator Idle.
C3_ForcedResize ==
    [][(ForcedResizeStep /\ settings'.autoScale) =>
          /\ ScaleTimers \cap timers' = {}
          /\ Ids(ScaleTimers) \subseteq last'.cancelled
          /\ last'.applied = 1
          /\ sysScale' = <<last'.scaleX, last'.scaleY>>
          /\ sysScale' = ExpectedScaleNext
          /\ Idle']_vars

\* a forced onresize has just cancelled a pending deferred application
C3_Witness ==
    /\ settings.autoScale
    /\ last.op = "onresize" /\ last.force
    /\ last.cancelled # {}
    /\ Idle

(* ------------------------------------------------------------------ *)
(* C4                                                                 *)
(* ------------------------------------------------------------------ *)

\* C4: with autoscaling enabled, finitely many resize requests and every
\* deferred callback that is not cancelled eventually firing, the coordinator
\* ends Idle with nothing scheduled, and the current scale is the one the
\* last run of onresize computed from the container size it saw and the
\* bounds in force.
C4_EventuallyIdle ==
    <>[]((Ready /\ settings.autoScale) =>
            /\ timers = {}
            /\ Idle
            /\ sysScale = ExpectedScale)

\* the last outstanding deferred application has fired under bounds set by
\* setMaxSize, leaving the coordinator Idle with the expected scale
C4_Witness ==
    /\ Ready /\ settings.autoScale
    /\ last.op = "fire_scale"
    /\ timers = {}
    /\ Idle
    /\ maxWidth = <<5, 2>>
    /\ sysScale = ExpectedScale

(* ------------------------------------------------------------------ *)
(* C5                                                                 *)
(* ------------------------------------------------------------------ *)

\* C5: with autoscaling disabled, a run of onresize (forced, not forced, or
\* the deferred one setMaxSize triggers) leaves the scale, the canvas, the
\* bounds and deferResizeId as they were, schedules nothing, and calls
\* renderer.updateBounds exactly once.
C5_NoAutoScaleResize ==
    [][(last'.op \in {"onresize", "fire_onresize"} /\ ~settings.autoScale) =>
          /\ UNCHANGED <<sysScale, canvas, maxWidth, maxHeight, deferResizeId>>
          /\ timers' \subseteq timers
          /\ last'.scheduled = {}
          /\ last'.applied = 0
          /\ last'.updateBounds = 1]_vars

\* a forced onresize has just run without autoscaling, after the application
\* set a scale of its own and while a deferred onresize is still scheduled
C5_Witness ==
    /\ Ready /\ ~settings.autoScale
    /\ last.op = "onresize" /\ last.force
    /\ last.updateBounds = 1
    /\ sysScale = <<Num(2), Num(2)>>
    /\ timers # {}

(* ------------------------------------------------------------------ *)
(* C6                                                                 *)
(* ------------------------------------------------------------------ *)

\* the bound setMaxSize stores for an argument
StoredBound(a) == IF a = Num(0) \/ IsNaN(a) THEN Infinity ELSE a

\* C6: in every state, setMaxSize(w, h) stores the bounds and schedules
\* exactly one deferred run of onresize without arguments, under a fresh
\* token, applying no scale itself and touching neither the canvas nor
\* deferResizeId; when that run fires it is not forced, applies nothing
\* itself, and with autoscaling computes from the bounds in force at that
\* moment.
C6_SetMaxSizeDefers ==
    [][/\ last'.op = "setMaxSize" =>
            /\ maxWidth' = StoredBound(last'.argW)
            /\ maxHeight' = StoredBound(last'.argH)
            /\ \E t \in timers' \ timers :
                 /\ timers' = timers \cup {t}
                 /\ t.fn = "onresize" /\ t.args = <<>>
                 /\ t.id \notin Ids(timers)
            /\ UNCHANGED <<sysScale, canvas, deferResizeId>>
            /\ last'.applied = 0
       /\ last'.op = "fire_onresize" =>
            /\ ~last'.force
            /\ last'.applied = 0
            /\ sysScale' = sysScale
            /\ settings.autoScale =>
                 /\ last'.max_width = MathFloor(MathMin(maxWidth, measured'[1]))
                 /\ last'.max_height = MathFloor(MathMin(maxHeight, measured'[2]))
                 /\ ScaleTimers' = {[id |-> deferResizeId', fn |-> "scale",
                                     args |-> ExpectedScaleNext]}]_vars

\* setMaxSize(2.5, 2) has just been called while a deferred scale application
\* is pending : the bounds are stored and its deferred onresize is scheduled
C6_Witness ==
    /\ last.op = "setMaxSize"
    /\ PendingDeferred
    /\ maxWidth = <<5, 2>> /\ maxHeight = Num(2)
    /\ \E t \in timers : t.fn = "onresize" /\ {t.id} = last.scheduled

(* ------------------------------------------------------------------ *)
(* C7                                                                 *)
(* ------------------------------------------------------------------ *)

\* C7: once the bounds are finite and smaller than the measured container, a
\* run of onresize that applies its scale clamps the container size to the
\* bounds, and the presented (CSS) size of the canvas does not exceed them,
\* under every policy.
C7_PresentedWithinBounds ==
    (/\ Ready /\ settings.autoScale
     /\ last.op \in {"onresize", "init"} /\ last.applied = 1
     /\ IsFinite(maxWidth) /\ Lt(maxWidth, measured[1])
     /\ IsFinite(maxHeight) /\ Lt(maxHeight, measured[2])) =>
        /\ Le(last.max_width, maxWidth)
        /\ Le(last.max_height, maxHeight)
        /\ Le(canvas.styleWidth, maxWidth)
        /\ Le(canvas.styleHeight, maxHeight)

(* ------------------------------------------------------------------ *)
(* C8                                                                 *)
(* ------------------------------------------------------------------ *)

\* C8: when the canvas renderer, the last backend tried, cannot be
\* constructed (a zero design size included), init returns false, installs
\* no renderer and does not publish VIDEO_INIT.
C8_InitReturnsFalse ==
    (last.op = "init" /\ last.canvasCtor = "throws") =>
        /\ initResult = "false"
        /\ renderer = "none"
        /\ last.videoInit = 0

(* ------------------------------------------------------------------ *)
(* C9                                                                 *)
(* ------------------------------------------------------------------ *)

\* C9: when WEBGL or AUTO is requested and the capability probe or the WebGL
\* constructor throws, the canvas constructor is called; if it succeeds, init
\* returns true holding the canvas renderer, the only backend constructed.
C9_FallbackToCanvas ==
    (/\ last.op = "init"
     /\ settings.renderer \in {WEBGL, AUTO}
     /\ (last.probe = "throws" \/ last.webgl = "throws")) =>
        /\ last.canvasCtor # "none"
        /\ last.canvasCtor = "ok" =>
              /\ initResult = "true"
              /\ renderer = "canvas"
              /\ last.built = 1
              /\ last.videoInit = 1

\* the WebGL constructor threw during init and the canvas renderer is held
C9_Witness ==
    /\ last.op = "init"
    /\ settings.renderer = WEBGL
    /\ last.probe = "true" /\ last.webgl = "throws"
    /\ last.canvasCtor = "ok"
    /\ initResult = "true"
    /\ renderer = "canvas"

(* ------------------------------------------------------------------ *)
(* C10                                                                *)
(* ------------------------------------------------------------------ *)

\* C10: when the capability probe reports that WebGL is not supported, under
\* the WEBGL and the AUTO choice alike, the WebGL constructor is not called,
\* the canvas constructor is, and the renderer it builds is the one held.
C10_UnsupportedProbe ==
    (last.op = "init" /\ last.probe = "false") =>
        /\ settings.renderer \in {WEBGL, AUTO}
        /\ last.webgl = "none"
        /\ last.canvasCtor # "none"
        /\ last.canvasCtor = "ok" => renderer = "canvas" /\ initResult = "true"

\* init asked for AUTO, the probe reported no support and the canvas
\* renderer was built
C10_Witness ==
    /\ last.op = "init"
    /\ settings.renderer = AUTO
    /\ last.probe = "false"
    /\ last.webgl = "none"
    /\ renderer = "canvas"

(* ------------------------------------------------------------------ *)
(* C11                                                                *)
(* ------------------------------------------------------------------ *)

\* C11 as stated: when the caller asked for the CANVAS renderer, init calls
\* neither the capability probe nor the WebGL constructor and calls the
\* canvas constructor.
C11_CanvasSkipsWebGL ==
    (last.op = "init" /\ last.choice = CANVAS) =>
        /\ last.probe = "none"
        /\ last.webgl = "none"
        /\ last.canvasCtor # "none"

\* C11 amended: when the caller asked for the CANVAS renderer and the URL
\* carries no webgl flag, init calls neither the capability probe nor the
\* WebGL constructor, calls the canvas constructor, and the renderer it
\* holds on success is the canvas renderer.
C11_CanvasSkipsWebGLNoFlag ==
    (last.op = "init" /\ last.choice = CANVAS /\ ~last.uriWebgl) =>
        /\ settings.renderer = CANVAS
        /\ last.probe = "none"
        /\ last.webgl = "none"
        /\ last.canvasCtor # "none"
        /\ last.built = 1 => renderer = "canvas"

\* init asked for CANVAS without a URL flag and holds the canvas renderer
C11_Witness ==
    /\ last.op = "init"
    /\ last.choice = CANVAS /\ ~last.uriWebgl
    /\ last.probe = "none" /\ last.webgl = "none"
    /\ last.canvasCtor = "ok"
    /\ renderer = "canvas"

(* ------------------------------------------------------------------ *)
(* C12                                                                *)
(* ------------------------------------------------------------------ *)

\* C12: a run of onresize (called, deferred, or the one inside init) whose
\* clamped width or height is zero changes nothing about the scale: the
\* current scale stays what it was, no scale application is scheduled, and
\* the current scale is positive and finite on both axes.
C12_DegenerateKeepsScale ==
    [][(/\ last'.op \in {"onresize", "fire_onresize", "init"}
        /\ Ready' /\ settings'.autoScale
        /\ (last'.max_width = Num(0) \/ last'.max_height = Num(0))) =>
          /\ sysScale' = sysScale
          /\ ScaleTimers' \subseteq ScaleTimers
          /\ \A i \in {1, 2} : IsFinite(sysScale'[i]) /\ sysScale'[i][1] > 0]_vars

(* ------------------------------------------------------------------ *)
(* Vocabulary of the scaling policies                                 *)
(* ------------------------------------------------------------------ *)

\* the state is the one a run of onresize with automatic scaling has just
\* left (called, deferred, or the run inside init)
ResizeRun ==
    /\ Ready /\ settings.autoScale
    /\ last.op \in {"onresize", "fire_onresize", "init"}

\* the clamped container size and the screen ratio that run worked with
ClampedW == last.max_width
ClampedH == last.max_height
ScreenRatio == Div(ClampedW, ClampedH)

\* the scale that run computed, given the scale before the pixel-ratio
\* correction
ScaleIs(x, y) ==
    /\ last.scaleX = Mul(x, Num(devicePixelRatio))
    /\ last.scaleY = Mul(y, Num(devicePixelRatio))

\* the cases in which the policy follows the width / the height
WidthCase ==
    \/ settings.scaleMethod = "fill-min" /\ Gt(ScreenRatio, designRatio)
    \/ settings.scaleMethod = "fill-max" /\ Lt(ScreenRatio, designRatio)
    \/ settings.scaleMethod = "flex-width"
HeightCase ==
    \/ settings.scaleMethod = "fill-min" /\ Lt(ScreenRatio, designRatio)
    \/ settings.scaleMethod = "fill-max" /\ Gt(ScreenRatio, designRatio)
    \/ settings.scaleMethod = "flex-height"

(* ------------------------------------------------------------------ *)
(* C13                                                                *)
(* ------------------------------------------------------------------ *)

\* C13 as stated: in the width cases the canvas is resized to
\* (round(min(clampedW, designHeight * screenRatio)), designHeight) and the
\* scale on both axes is clampedW divided by that width; in the height
\* cases it is resized to (designWidth, round(min(clampedH, designWidth *
\* clampedH / clampedW))) and the scale is clampedH divided by that height.
C13_FillResize ==
    ResizeRun =>
      /\ WidthCase =>
           \E w \in {RoundHalfUp(MathMin(ClampedW,
                                         Mul(Num(designHeight), ScreenRatio)))} :
             /\ canvas.width = w /\ canvas.height = designHeight
             /\ ScaleIs(Div(ClampedW, Num(w)), Div(ClampedW, Num(w)))
      /\ HeightCase =>
           \E h \in {RoundHalfUp(MathMin(ClampedH,
                                         Mul(Num(designWidth), Div(ClampedH, ClampedW))))} :
             /\ canvas.width = designWidth /\ canvas.height = h
             /\ ScaleIs(Div(ClampedH, Num(h)), Div(ClampedH, Num(h)))

\* C13 amended: in the width cases the canvas is resized to
\* (round(s), designHeight) with s = min(maxWidth, designHeight *
\* screenRatio) and the scale on both axes is clampedW / s; in the height
\* cases it is resized to (designWidth, round(s)) with s = min(maxHeight,
\* designWidth * clampedH / clampedW) and the scale is clampedH / s.
C13_FillResizeByBound ==
    ResizeRun =>
      /\ WidthCase =>
           \E sw \in {MathMin(maxWidth, Mul(Num(designHeight), ScreenRatio))} :
             /\ canvas.width = RoundHalfUp(sw) /\ canvas.height = designHeight
             /\ ScaleIs(Div(ClampedW, sw), Div(ClampedW, sw))
      /\ HeightCase =>
           \E sh \in {MathMin(maxHeight,
                              Mul(Num(designWidth), Div(ClampedH, ClampedW)))} :
             /\ canvas.width = designWidth /\ canvas.height = RoundHalfUp(sh)
             /\ ScaleIs(Div(ClampedH, sh), Div(ClampedH, sh))

\* fill-min in a 3x2 container without bounds : the canvas is 5x3 (4.5
\* rounded) and the scale is 3 / 4.5
C13_Witness ==
    /\ ResizeRun
    /\ settings.scaleMethod = "fill-min" /\ WidthCase
    /\ maxWidth = Infinity
    /\ ClampedW = Num(3) /\ ClampedH = Num(2)
    /\ canvas.width = 5 /\ canvas.height = 3
    /\ ScaleIs(<<2, 3>>, <<2, 3>>)

(* ------------------------------------------------------------------ *)
(* C14                                                                *)
(* ------------------------------------------------------------------ *)

\* a clamped side that is a positive finite number
Positive(a) == IsFinite(a) /\ a[1] > 0

\* C14: under the fit policy, with positive clamped sizes, the scale is the
\* same on both axes, clampedW / designWidth when screenRatio < designRatio
\* and clampedH / designHeight otherwise (times the pixel ratio); the canvas
\* is not resized and keeps the design size; the design scaled by that
\* factor is no larger than the clamped container on either axis.
C14_Fit ==
    (/\ ResizeRun /\ settings.scaleMethod = "fit"
     /\ Positive(ClampedW) /\ Positive(ClampedH)) =>
        \E s \in {IF Lt(ScreenRatio, designRatio)
                  THEN Div(ClampedW, Num(designWidth))
                  ELSE Div(ClampedH, Num(designHeight))} :
          /\ ScaleIs(s, s)
          /\ last.resize = 0
          /\ canvas.width = designWidth /\ canvas.height = designHeight
          /\ Le(Mul(Num(designWidth), s), ClampedW)
          /\ Le(Mul(Num(designHeight), s), ClampedH)

\* fit in a 4.5x3 container under bounds (2.5, 2) : the clamped size is 2x2,
\* the width is the tighter side and the scale is 2 / 4
C14_Witness ==
    /\ ResizeRun /\ settings.scaleMethod = "fit"
    /\ ClampedW = Num(2) /\ ClampedH = Num(2)
    /\ maxWidth = <<5, 2>>
    /\ ScaleIs(<<1, 2>>, <<1, 2>>)
    /\ canvas.width = 4 /\ canvas.height = 3

(* ------------------------------------------------------------------ *)
(* C15                                                                *)
(* ------------------------------------------------------------------ *)

\* C15: under the stretch policy a run of onresize computes scaleX =
\* clampedW / designWidth and scaleY = clampedH / designHeight, each times
\* the pixel ratio, without resizing the canvas; in every state after init
\* the canvas has the design size.
C15_Stretch ==
    (Ready /\ settings.autoScale /\ settings.scaleMethod = "stretch") =>
        /\ canvas.width = designWidth /\ canvas.height = designHeight
        /\ ResizeRun =>
             /\ ScaleIs(Div(ClampedW, Num(designWidth)),
                        Div(ClampedH, Num(designHeight)))
             /\ last.resize = 0

\* stretch in a 3x2 window, reached by a deferred request : the factors
\* 3 / 4 and 2 / 3 differ
C15_Witness ==
    /\ ResizeRun /\ settings.scaleMethod = "stretch"
    /\ last.op = "onresize" /\ ~last.force
    /\ ClampedW = Num(3) /\ ClampedH = Num(2)
    /\ ScaleIs(<<3, 4>>, <<2, 3>>)
    /\ last.scaleX # last.scaleY
    /\ canvas.width = 4 /\ canvas.height = 3

(* ------------------------------------------------------------------ *)
(* C16                                                                *)
(* ------------------------------------------------------------------ *)

\* C16 as stated: under the flex policy a run of onresize resizes the canvas
\* to exactly (min(maxWidth, container width), min(maxHeight, container
\* height)) and computes the scale 1 on both axes, times the pixel ratio.
C16_FlexExact ==
    (ResizeRun /\ settings.scaleMethod = "flex") =>
        /\ Num(canvas.width) = MathMin(maxWidth, measured[1])
        /\ Num(canvas.height) = MathMin(maxHeight, measured[2])
        /\ ScaleIs(Num(1), Num(1))

\* C16 amended: under the flex policy a run of onresize resizes the canvas
\* to (clampedW, clampedH) with clampedW = floor(min(maxWidth, container
\* width)) and clampedH = floor(min(maxHeight, container height)), and
\* computes the scale 1 on both axes, times the pixel ratio.
C16_FlexFloor ==
    (ResizeRun /\ settings.scaleMethod = "flex") =>
        /\ ClampedW = MathFloor(MathMin(maxWidth, measured[1]))
        /\ ClampedH = MathFloor(MathMin(maxHeight, measured[2]))
        /\ Num(canvas.width) = ClampedW
        /\ Num(canvas.height) = ClampedH
        /\ last.resize = 1
        /\ ScaleIs(Num(1), Num(1))

\* flex in a 4.5x3 container under bounds (2.5, 2) : the canvas is 2x2
C16_Witness ==
    /\ ResizeRun /\ settings.scaleMethod = "flex"
    /\ maxWidth = <<5, 2>> /\ maxHeight = Num(2)
    /\ measured = <<<<9, 2>>, Num(3)>>
    /\ canvas.width = 2 /\ canvas.height = 2
    /\ ScaleIs(Num(1), Num(1))

(* ------------------------------------------------------------------ *)
(* C17                                                                *)
(* ------------------------------------------------------------------ *)

\* the canvas size a run of onresize leaves when it starts from the canvas
\* the constructor created, for the container size, bounds, policy and
\* design size of the current state
FreshSurface ==
    LET sz == Sizing(settings.scaleMethod, ClampedW, ClampedH, maxWidth,
                     maxHeight, designWidth, designHeight, designRatio)
    IN  IF sz.resize THEN <<sz.w, sz.h>> ELSE <<designWidth, designHeight>>

\* C17: the scale and the canvas size a run of onresize ends with depend on
\* the design size, the container size, the bounds, the policy and the
\* pixel ratio only : whatever resizes came before, they are the ones a first
\* run with the same inputs ends with.
C17_HistoryIndependent ==
    ResizeRun =>
        /\ <<last.scaleX, last.scaleY>> = ExpectedScale
        /\ <<canvas.width, canvas.height>> = FreshSurface

(* ------------------------------------------------------------------ *)
(* C18                                                                *)
(* ------------------------------------------------------------------ *)

\* C18: after init has read its options, settings.scaleMethod is the name
\* given when that is one of fit, fill-min, fill-max, flex, flex-width,
\* flex-height, stretch, and fit for any other string; the name given makes
\* no init fail : whenever a renderer is constructed init returns true.
C18_ScaleMethodNormalized ==
    (last.op = "init" /\ last.choice # -1) =>
        /\ settings.scaleMethod =
              IF last.methodArg \in {"fit", "fill-min", "fill-max", "flex",
                                     "flex-width", "flex-height", "stretch"}
              THEN last.methodArg
              ELSE "fit"
        /\ ("ok" \in {last.webgl, last.canvasCtor}) => initResult = "true"

\* init was given an unknown policy name, took fit and returned true
C18_Witness ==
    /\ last.op = "init"
    /\ last.methodArg = "flex-"
    /\ settings.scaleMethod = "fit"
    /\ settings.autoScale
    /\ initResult = "true"

(* ------------------------------------------------------------------ *)
(* C19                                                                *)
(* ------------------------------------------------------------------ *)

\* C19: in every state after init, scale(x, y) applied to what scale(x, y)
\* leaves gives the same presented size and the same current scale again;
\* and a call of scale that directly follows a call with the same arguments
\* changes neither the canvas nor the current scale.
C19_ScaleIdempotent ==
    /\ [](Ready =>
            \A x, y \in ScaleCallArgs :
              \E a \in {ScaleCall(x, y, canvas, deferResizeId, devicePixelRatio)} :
                ScaleCall(x, y, a.canvas, a.deferResizeId, devicePixelRatio) = a)
    /\ [][(/\ last.op = "scale" /\ last'.op = "scale"
           /\ last'.scaleX = last.scaleX /\ last'.scaleY = last.scaleY) =>
             UNCHANGED <<canvas, sysScale, deferResizeId>>]_vars

\* scale(2, 1) has been called on a High-DPI device : the 4x3 canvas is
\* presented 4 x 1.5 and the current scale is (2, 1)
C19_Witness ==
    /\ last.op = "scale"
    /\ last.scaleX = Num(2) /\ last.scaleY = Num(1)
    /\ devicePixelRatio = 2
    /\ sysScale = <<Num(2), Num(1)>>
    /\ canvas.width = 4 /\ canvas.height = 3
    /\ canvas.styleWidth = Num(4) /\ canvas.styleHeight = <<3, 2>>

(* ------------------------------------------------------------------ *)
(* C20                                                                *)
(* ------------------------------------------------------------------ *)

\* the positions at which e occurs among the events of the latest handler
Occurrences(e) == {i \in DOMAIN last.events : last.events[i] = e}

\* C20: an init that returns true holds a renderer and has published
\* VIDEO_INIT exactly once, after the renderer was assigned and after the
\* forced onresize, which with automatic scaling applied its scale before
\* returning and left nothing deferred; an init that fails has published
\* nothing and holds no renderer.
C20_VideoInitOnce ==
    last.op = "init" =>
        IF initResult = "true"
        THEN /\ renderer # "none"
             /\ last.videoInit = 1
             /\ Cardinality(Occurrences("VIDEO_INIT")) = 1
             /\ \A j \in Occurrences("VIDEO_INIT") :
                  /\ \E i \in Occurrences("renderer") : i < j
                  /\ \E i \in Occurrences("onresize") : i < j
             /\ last.force
             /\ settings.autoScale =>
                  /\ last.applied = 1
                  /\ sysScale = <<last.scaleX, last.scaleY>>
                  /\ ScaleTimers = {}
        ELSE /\ renderer = "none"
             /\ last.videoInit = 0
             /\ Occurrences("VIDEO_INIT") = {}

\* init has returned true through the WebGL renderer with automatic scaling,
\* its forced resize applied, and VIDEO_INIT published
C20_Witness ==
    /\ last.op = "init" /\ initResult = "true"
    /\ renderer = "webgl"
    /\ settings.autoScale
    /\ last.applied = 1
    /\ last.videoInit = 1
    /\ Occurrences("VIDEO_INIT") = {3}

(* ------------------------------------------------------------------ *)
(* C21                                                                *)
(* ------------------------------------------------------------------ *)

\* me.video.scale called by the application in any state after init
scaleDirect == \E x, y \in ScaleCallArgs : scale(x, y)

NextDirect ==
    \/ initAuto
    \/ \E force \in BOOLEAN : onresize(force)
    \/ \E a \in MaxSizeArgs : setMaxSize(a[1], a[2])
    \/ scaleDirect
    \/ Fire

\* an auto-scaling game whose application also calls me.video.scale itself
SpecDirect == Init /\ [][NextDirect]_vars

\* C21: in every state reached by onresize, setMaxSize, direct calls of
\* scale(x, y) and firings of deferred callbacks, deferResizeId is positive
\* exactly when a deferred scale application is scheduled, and then it is
\* the token of that application.
C21_TokenTracksPending ==
    Ready =>
        /\ deferResizeId > 0 <=> ScaleTimers # {}
        /\ \A t \in ScaleTimers : t.id = deferResizeId

(* ------------------------------------------------------------------ *)
(* C22                                                                *)
(* ------------------------------------------------------------------ *)

\* the policies whose branch of onresize calls renderer.resize
SurfaceResizing == {"fill-min", "fill-max", "flex", "flex-width", "flex-height"}

\* a non-forced run of onresize under such a policy has just ended
DeferredResizeRun ==
    /\ ResizeRun
    /\ last.op \in {"onresize", "fire_onresize"} /\ ~last.force
    /\ settings.scaleMethod \in SurfaceResizing

\* right after the request its scale application is pending and nothing was
\* applied, while the canvas already has the size the request's inputs give
SurfaceAhead ==
    DeferredResizeRun =>
        /\ PendingDeferred
        /\ last.applied = 0
        /\ <<canvas.width, canvas.height>> = FreshSurface

\* the request leaves the scale and the presented size as they were; the
\* deferred callback applies the scale and leaves the surface size alone
ScaleBehind ==
    /\ (NonForcedResizeStep /\ Ready' /\ settings'.autoScale
        /\ settings'.scaleMethod \in SurfaceResizing) =>
           /\ sysScale' = sysScale
           /\ canvas'.styleWidth = canvas.styleWidth
           /\ canvas'.styleHeight = canvas.styleHeight
    /\ last'.op = "fire_scale" =>
           /\ canvas'.width = canvas.width
           /\ canvas'.height = canvas.height
           /\ sysScale' = <<last'.scaleX, last'.scaleY>>

\* C22: a non-forced onresize under fill-min, fill-max, flex, flex-width or
\* flex-height resizes the canvas inside the call and only defers the scale :
\* while the application is pending the canvas has the size of the latest
\* request and the scale is the last one applied; the deferred callback
\* applies the scale without touching the canvas size, so the resize of a
\* superseded request is never taken back.
C22_SurfaceBeforeScale == []SurfaceAhead /\ [][ScaleBehind]_vars

(* ------------------------------------------------------------------ *)
(* C23                                                                *)
(* ------------------------------------------------------------------ *)

\* 0, NaN and a missing argument (undefined, NaN once used as a number)
Falsy(a) == a = Num(0) \/ IsNaN(a)

\* setMaxSize stores Infinity for a falsy argument
FalsyUnbounds ==
    last'.op = "setMaxSize" =>
        /\ Falsy(last'.argW) => maxWidth' = Infinity
        /\ Falsy(last'.argH) => maxHeight' = Infinity

\* C23 as stated: setMaxSize(w, h) stores Infinity for a width or height
\* that is 0, NaN or missing, and a run of onresize under such a bound works
\* with a clamped size equal to the measured container size on that axis.
C23_FalsyIsUnbounded ==
    /\ [][FalsyUnbounds]_vars
    /\ [](ResizeRun =>
            /\ maxWidth = Infinity => ClampedW = measured[1]
            /\ maxHeight = Infinity => ClampedH = measured[2])

\* C23 amended: setMaxSize(w, h) stores Infinity for a width or height that
\* is 0, NaN or missing, and a run of onresize under such a bound works with
\* a clamped size equal to the floor of the measured container size on that
\* axis.
C23_FalsyIsUnboundedFloor ==
    /\ [][FalsyUnbounds]_vars
    /\ [](ResizeRun =>
            /\ maxWidth = Infinity => ClampedW = MathFloor(measured[1])
            /\ maxHeight = Infinity => ClampedH = MathFloor(measured[2]))

\* the resize that setMaxSize(0, 2) deferred has run in a container 4.5 wide
\* and 3 high : no bound on the width, whose clamped size is 4, and a clamped
\* height of 2
C23_Witness ==
    /\ ResizeRun /\ last.op = "fire_onresize"
    /\ maxWidth = Infinity /\ maxHeight = Num(2)
    /\ measured = <<<<9, 2>>, Num(3)>>
    /\ ClampedW = Num(4) /\ ClampedH = Num(2)

====
